---------------------------- MODULE Spec2Model ----------------------------
(***************************************************************************)
(* The parallel module loader of compiler/load/src/file.rs, and the        *)
(* CodeLines of editor/src/editor/code_lines.rs.                           *)
(*                                                                         *)
(* The coordinator's State is keyed by module numbers; the shared ModuleIds *)
(* table of send_header is kept beside it as pairs of a name and its id.  A *)
(* source tree is given by maps over file names: the imports of each file's *)
(* header, the module name the header declares, what reading and parsing   *)
(* the file yields, and the modules a file's body refers to.               *)
(*                                                                         *)
(* Spec is the loader as it compiles: a worker that finds a task stops at  *)
(* todo!(), no TaskAdded is sent for the tasks pushed on the root's Header, *)
(* so the root's Header is the only message the coordinator ever receives. *)
(* SpecPipeline drives the coordinator's update with the messages the      *)
(* queued tasks produce when they are run, and pushes a solve task where   *)
(* update has its todo!().  SpecWorkers adds the worker threads as they    *)
(* compile to SpecPipeline, SpecSmallChannels runs it on channels small    *)
(* enough to fill, and SpecAnyChannel is Spec on a message channel that may *)
(* have lost its receiver.  SpecUpdate is SpecPipeline over trees with     *)
(* unused imports, FairSpecReadable is SpecPipeline over files that can be *)
(* read and declare their own names, with every task run and every message *)
(* received.  SpecLocks follows the threads through the mutexes of         *)
(* send_header and build_parse_and_constrain_task, SpecIdents follows the  *)
(* IdentIds of two headers, and SpecFindTask follows one call of find_task. *)
(* SpecCodeLines builds a CodeLines from a string and edits it.            *)
(* debug_assert!s are compiled out (a release build).                      *)
(***************************************************************************)
EXTENDS Naturals, Sequences, FiniteSets, TLC

\* Bounds of the model.
NumMods == 3
MaxEdges == 3
MaxCpus == 2
MaxCapacity == 1
MaxThreads == 2
MaxQueued == 1
MaxRetries == 2
MaxIdents == 2
MaxLen == 2
MaxEdits == 2

\* bounded(1024): the capacity of the message channel and of each worker channel.
ChannelCapacity == 1024

Mods == 1..NumMods

\* The file handed to load.
RootFile == 1

FileKinds == {"Interface", "App", "Missing", "BadHeader"}

VARIABLES
    imports,              \* file -> set of imported module names (the header's imports)
    declared,             \* file -> the module name its header declares
    kind,                 \* file -> what fs::read and the header parser yield
    cpus,                 \* num_cpus::get()
    msg_rx_open,          \* whether the message channel still has its receiver
    capacity,             \* what every bounded channel holds
    references,           \* module -> the modules its body refers to
    pc,                   \* "load", "coordinator", "joining", "exited"
    outcome,              \* what load returns (or how it ends) once it has exited
    root_id,              \* the ModuleId load_filename returned for the root
    state,                \* the coordinator's State
    ident_ids_by_module,  \* keys of the shared IdentIdsByModule table
    module_ids,           \* the shared ModuleIds table: pairs <<name, ModuleId>>
    msgs,                 \* the message channel, oldest first
    tasks,                \* the injector queue, oldest first
    signals,              \* per worker: its channel of WorkerMsgs, oldest first
    workers,              \* per worker: "running", "returned" or "panicked"
    task_errors,          \* the LoadingProblems that running a task returned
    last,                 \* what the coordinator's last step did
    enqueued,             \* <<task type, module>> -> tasks of that kind pushed so far
    finished_enqueued,    \* Finished messages sent so far
    owed,                 \* per worker: TaskAddeds the coordinator has yet to get sent
    at,                   \* per thread: where it is in send_header or in build_parse_and_constrain_task
    held,                 \* per thread: the intern-table mutexes whose guard it holds
    job,                  \* per thread: the file whose header it sends, or the deps it looks up
    poisoned,             \* the mutexes a thread panicked under
    find,                 \* a call of find_task: its queues, where it is, what it returned
    header_idents,        \* two headers' exposed names, the IdentIds tables, scope and exposes
    code_lines            \* the editor's CodeLines, the string it was built from, its last call

vars == <<imports, declared, kind, cpus, msg_rx_open, capacity, references, pc, outcome, root_id, state,
          ident_ids_by_module, module_ids, msgs, tasks, signals, workers, task_errors, last,
          enqueued, finished_enqueued, owed, at, held, job, poisoned, find, header_idents,
          code_lines>>

inputs == <<imports, declared, kind, cpus, msg_rx_open, capacity, references>>

\* The threads inside the functions that lock the intern tables.
locking == <<at, held, job, poisoned>>

-----------------------------------------------------------------------------
\* Partial maps (MutMap) as functions on their key set.

EmptyMap == [k \in {} |-> {}]

Put(m, k, v) == [x \in (DOMAIN m) \cup {k} |-> IF x = k THEN v ELSE m[x]]

Del(m, k) == [x \in (DOMAIN m) \ {k} |-> m[x]]

Has(m, k) == k \in DOMAIN m

RECURSIVE SetToSeq(_)
SetToSeq(S) ==
    IF S = {} THEN <<>>
    ELSE LET x == CHOOSE y \in S : \A z \in S : y <= z
         IN <<x>> \o SetToSeq(S \ {x})

-----------------------------------------------------------------------------
\* The source trees: every file that has imports, a misdeclared name or a
\* header that is no Interface is reachable from the root file (no other file
\* is ever read).

RECURSIVE SubsetsUpTo(_, _)
SubsetsUpTo(S, k) ==
    IF k = 0 \/ S = {} THEN {{}}
    ELSE LET x == CHOOSE y \in S : TRUE
             rest == SubsetsUpTo(S \ {x}, k)
             with == SubsetsUpTo(S \ {x}, k - 1)
         IN rest \cup {T \cup {x} : T \in with}

GraphOf(E) == [m \in Mods |-> {d \in Mods : <<m, d>> \in E}]

RECURSIVE ReachFrom(_, _)
ReachFrom(g, S) ==
    LET T == S \cup UNION {g[m] : m \in S}
    IN IF T = S THEN S ELSE ReachFrom(g, T)

Reachable(g) == ReachFrom(g, {RootFile})

FirstImporter(g, m) == CHOOSE f \in Mods : m \in g[f] /\ \A e \in Mods : m \in g[e] => f <= e

\* Module names are interchangeable, so one numbering of each tree is enough:
\* the files the root reaches are numbered in the order a breadth-first walk
\* of the imports finds them.
Canonical(g) ==
    LET R == Reachable(g) IN
    /\ R = 1..Cardinality(R)
    /\ \A m, n \in R \ {RootFile} : m < n => FirstImporter(g, m) <= FirstImporter(g, n)

Graphs ==
    {g \in {GraphOf(E) : E \in SubsetsUpTo(Mods \X Mods, MaxEdges)} :
        /\ \A m \in Mods : g[m] # {} => m \in Reachable(g)
        /\ Canonical(g)}

Identity == [m \in Mods |-> m]

AllInterface == [m \in Mods |-> "Interface"]

-----------------------------------------------------------------------------
\* Messages and tasks.

HeaderMsg(home, deps) == [type |-> "Header", mod |-> home, deps |-> deps]

ConstrainedMsg(m, deps) == [type |-> "Constrained", mod |-> m, deps |-> deps]

SolvedMsg(m) == [type |-> "Solved", mod |-> m, deps |-> {}]

FinishedMsg == [type |-> "Finished", mod |-> 0, deps |-> {}]

LoadModuleTask(name) == [type |-> "LoadModule", mod |-> name, deps |-> {}]

ParseAndConstrainTask(m, deps) == [type |-> "ParseAndConstrain", mod |-> m, deps |-> deps]

\* The solve task of a module, with the imported_modules it is solved against.
SolveTask(m, imported) == [type |-> "Solve", mod |-> m, deps |-> imported]

TaskTypes == {"LoadModule", "ParseAndConstrain", "Solve"}

\* One push onto main_task_queue, with the place in update that made it.
Push(task, via) == [task |-> task, via |-> via]

NoStep ==
    [msg |-> "none", mod |-> 0, deps |-> {}, pushed |-> <<>>, notified |-> 0, partial |-> 0,
     sent |-> <<>>, out |-> "ok"]

-----------------------------------------------------------------------------
\* load_deps: the State the coordinator starts from.

InitialState(root) ==
    [ headers_parsed            |-> {root},
      loading_started           |-> {root},
      exposed_types             |-> {},
      constrained_ident_ids     |-> {},
      declarations_by_id        |-> {},
      exposed_symbols_by_module |-> {},
      waiting_for_headers       |-> EmptyMap,
      header_listeners          |-> EmptyMap,
      unparsed_modules          |-> EmptyMap,
      waiting_for_solve         |-> EmptyMap,
      solve_listeners           |-> EmptyMap,
      unsolved_modules          |-> EmptyMap ]

NumWorkers(n) == n - 1

Workers == 1..NumWorkers(cpus)


BlankState ==
    [InitialState(0) EXCEPT !.headers_parsed = {}, !.loading_started = {}]

-----------------------------------------------------------------------------
\* update: the result of one call.  st is the State it returns (or had reached
\* when it stopped), pushed the tasks it pushed in order, notified the number
\* of times it sent TaskAdded to every worker, partial the number of workers
\* that were sent TaskAdded before a send failed, sent the messages it sent,
\* and out is "ok", the LoadingProblem it returned, or "panic".

Started(st) ==
    [st |-> st, pushed |-> <<>>, notified |-> 0, partial |-> 0, sent |-> <<>>,
     out |-> "ok"]

Stop(r, how) == [r EXCEPT !.out = how]

SolveNeededAll(exposed_types, deps) == deps

\* build_parse_and_constrain_task: the deps that are not solved yet.
SolveNeeded(exposed_types, deps) == {d \in deps : d \notin exposed_types}

\* build_parse_and_constrain_task: the ident table of every dep is looked up
\* (unwrap) and waiting_for_solve gets the module's entry.
BuildParseAndConstrainTask(st, idents, m, deps) ==
    [ ok   |-> deps \subseteq idents,
      st   |-> [st EXCEPT !.waiting_for_solve =
                              Put(@, m, SolveNeeded(st.exposed_types, deps))],
      task |-> ParseAndConstrainTask(m, deps) ]

HeadersNeededUnchecked(st, deps) == deps

HeadersNeededStarted(st, deps) == {d \in deps : d \notin st.loading_started}

\* update, Header arm: the deps whose headers have not been processed.
HeadersNeeded(st, deps) == {d \in deps : d \notin st.headers_parsed}

NotYetLoadingUnchecked(loading_started, deps) == deps

\* update, Header arm: the deps no LoadModule task was pushed for yet.
NotYetLoading(loading_started, deps) == {d \in deps : d \notin loading_started}

\* update, Header arm: for tx in worker_listeners { tx.send(TaskAdded) } after
\* the push of an un-parked module's task.  The send to a worker whose thread
\* has ended (its receiver is dropped) fails, and update returns MsgChannelDied.
NotifyUnparked(r, ws) ==
    LET gone == {w \in DOMAIN ws : ws[w] # "running"} IN
    IF gone = {} THEN [r EXCEPT !.notified = @ + 1]
    ELSE [r EXCEPT !.partial = (CHOOSE w \in gone : \A v \in gone : w <= v) - 1,
                   !.out = "MsgChannelDied"]

\* update, Header arm: the listeners of home are told its header is there.
RECURSIVE NotifyHeaderListeners(_, _, _, _, _)
NotifyHeaderListeners(r, listeners, home, idents, ws) ==
    IF listeners = <<>> \/ r.out # "ok" THEN r
    ELSE
      LET l == Head(listeners) IN
      IF ~Has(r.st.waiting_for_headers, l) THEN Stop(r, "panic")
      ELSE
        LET waiting_for == r.st.waiting_for_headers[l] \ {home}
            st1 == [r.st EXCEPT !.waiting_for_headers[l] = waiting_for]
            r1  == [r EXCEPT !.st = st1]
        IN
        IF waiting_for # {} THEN
            NotifyHeaderListeners(r1, Tail(listeners), home, idents, ws)
        ELSE IF ~Has(st1.unparsed_modules, l) THEN Stop(r1, "panic")
        ELSE IF l \notin st1.exposed_symbols_by_module THEN Stop(r1, "panic")
        ELSE
          LET deps == st1.unparsed_modules[l]
              st2 == [st1 EXCEPT !.unparsed_modules = Del(@, l),
                                 !.exposed_symbols_by_module = @ \ {l}]
              b   == BuildParseAndConstrainTask(st2, idents, l, deps)
          IN
          IF ~b.ok THEN Stop([r EXCEPT !.st = st2], "panic")
          ELSE
            NotifyHeaderListeners(
                NotifyUnparked([r EXCEPT !.st = b.st,
                                         !.pushed = Append(@, Push(b.task, "unpark"))],
                               ws),
                Tail(listeners), home, idents, ws)

\* update, Header arm: a LoadModule task for every dep not started yet.  The
\* order of the pushes is the HashMap's; the queue's consumers take any task.
StartLoadingDeps(r, deps) ==
    LET fresh == NotYetLoading(r.st.loading_started, deps)
        new   == SetToSeq(fresh)
    IN [r EXCEPT !.st.loading_started = @ \cup fresh,
                 !.pushed = @ \o [i \in 1..Len(new) |-> Push(LoadModuleTask(new[i]), "load")]]

\* update, Header arm: if headers_needed.is_empty().
ReadyToParse(headers_needed) == headers_needed = {}

\* update, Header arm: the header's own task is pushed, or the header is parked.
EnqueueOrPark(r, home, deps, headers_needed, idents) ==
    IF r.out # "ok" THEN r
    ELSE IF ReadyToParse(headers_needed) THEN
        IF home \notin r.st.exposed_symbols_by_module THEN Stop(r, "panic")
        ELSE
          LET st1 == [r.st EXCEPT !.exposed_symbols_by_module = @ \ {home}]
              b   == BuildParseAndConstrainTask(st1, idents, home, deps)
          IN IF ~b.ok THEN Stop([r EXCEPT !.st = st1], "panic")
             ELSE [r EXCEPT !.st = b.st,
                            !.pushed = Append(@, Push(b.task, "direct"))]
    ELSE
        LET RECURSIVE Register(_, _)
            Register(hl, ds) ==
                IF ds = <<>> THEN hl
                ELSE LET d == Head(ds)
                         old == IF Has(hl, d) THEN hl[d] ELSE <<>>
                     IN Register(Put(hl, d, Append(old, home)), Tail(ds))
        IN [r EXCEPT !.st.unparsed_modules = Put(@, home, deps),
                     !.st.header_listeners = Register(@, SetToSeq(headers_needed)),
                     !.st.waiting_for_headers = Put(@, home, headers_needed)]

UpdateHeader(st, msg, idents, ws) ==
    LET home == msg.mod
        deps == msg.deps
        st1  == [st EXCEPT !.headers_parsed = @ \cup {home}]
        headers_needed == HeadersNeeded(st1, deps)
        st2  == [st1 EXCEPT !.exposed_symbols_by_module = @ \cup {home}]
        listeners == IF Has(st2.header_listeners, home)
                     THEN st2.header_listeners[home] ELSE <<>>
        st3  == [st2 EXCEPT !.header_listeners = Del(@, home)]
        r1   == NotifyHeaderListeners(Started(st3), listeners, home, idents, ws)
    IN IF r1.out # "ok" THEN r1
       ELSE EnqueueOrPark(StartLoadingDeps(r1, deps), home, deps, headers_needed, idents)


RetainNothing(waiting_for, exposed_types) == {}

\* update, Constrained arm: waiting_for.retain(|id| !exposed_types.contains_key(id)).
Retain(waiting_for, exposed_types) == {d \in waiting_for : d \notin exposed_types}

\* update, where a solve task is to be pushed: todo!() as the code stands.
SolveSiteStub(r, m, imported, via) == Stop(r, "panic")

\* The same place with the solve task pushed and the workers told.
SolveSiteSpawn(r, m, imported, via) ==
    [r EXCEPT !.pushed = Append(@, Push(SolveTask(m, imported), via)), !.notified = @ + 1]

SolveSite(r, m, imported, via, stub) ==
    IF stub THEN SolveSiteStub(r, m, imported, via) ELSE SolveSiteSpawn(r, m, imported, via)

\* update, Constrained arm: the module is registered with each dep it waits for.
RECURSIVE RegisterSolveListener(_, _, _)
RegisterSolveListener(sl, ds, m) ==
    IF ds = <<>> THEN sl
    ELSE LET d == Head(ds)
             old == IF Has(sl, d) THEN sl[d] ELSE <<>>
         IN RegisterSolveListener(Put(sl, d, Append(old, m)), Tail(ds), m)

\* update, Constrained arm: the unused_imports that pre_constrain_imports
\* returns, the imported modules that the module's body does not refer to.
UnusedImports(m, imported) == imported \ references[m]

UpdateConstrained(st, msg, stub) ==
    LET m == msg.mod IN
    IF ~Has(st.waiting_for_solve, m) THEN Stop(Started(st), "panic")
    ELSE
      LET waiting_for == Retain(st.waiting_for_solve[m], st.exposed_types)
          st1 == [st EXCEPT !.constrained_ident_ids = @ \cup {m},
                            !.waiting_for_solve[m] = waiting_for,
                            !.declarations_by_id = @ \cup {m}]
      IN IF waiting_for = {} THEN
             IF UnusedImports(m, msg.deps) # {} THEN Stop(Started(st1), "panic")
             ELSE SolveSite(Started(st1), m, msg.deps, "constrained", stub)
         ELSE Started([st1 EXCEPT
                  !.unsolved_modules = Put(@, m, msg.deps),
                  !.solve_listeners = RegisterSolveListener(@, SetToSeq(waiting_for), m)])

\* update, Solved arm: the listeners of a solved module are told.
RECURSIVE NotifySolveListeners(_, _, _, _)
NotifySolveListeners(r, listeners, m, stub) ==
    IF listeners = <<>> \/ r.out # "ok" THEN r
    ELSE
      LET l == Head(listeners) IN
      IF ~Has(r.st.waiting_for_solve, l) THEN Stop(r, "panic")
      ELSE
        LET waiting_for == r.st.waiting_for_solve[l] \ {m}
            r1 == [r EXCEPT !.st.waiting_for_solve[l] = waiting_for]
        IN
        IF waiting_for # {} THEN NotifySolveListeners(r1, Tail(listeners), m, stub)
        ELSE IF ~Has(r1.st.unsolved_modules, l) THEN Stop(r1, "panic")
        ELSE NotifySolveListeners(
                 SolveSite([r1 EXCEPT !.st.unsolved_modules = Del(@, l)], l,
                           r1.st.unsolved_modules[l], "solved", stub),
                 Tail(listeners), m, stub)

\* update, Solved arm, the root: Finished is sent on the coordinator's own channel.
\* The result of the send is dropped: on a channel without receiver nothing is
\* sent and update goes on to return Ok(state).
SendFinished(r, open) == IF open THEN [r EXCEPT !.sent = Append(@, FinishedMsg)] ELSE r

UpdateSolved(st, msg, root, stub, open) ==
    LET m == msg.mod IN
    IF m = root THEN SendFinished(Started(st), open)
    ELSE
      LET st1 == [st EXCEPT !.exposed_types = @ \cup {m}]
          listeners == IF Has(st1.solve_listeners, m) THEN st1.solve_listeners[m] ELSE <<>>
          st2 == [st1 EXCEPT !.solve_listeners = Del(@, m)]
      IN NotifySolveListeners(Started(st2), listeners, m, stub)

\* update: one message other than Finished.
Update(st, msg, idents, root, stub, ws, open) ==
    CASE msg.type = "Header"      -> UpdateHeader(st, msg, idents, ws)
      [] msg.type = "Constrained" -> UpdateConstrained(st, msg, stub)
      [] msg.type = "Solved"      -> UpdateSolved(st, msg, root, stub, open)

-----------------------------------------------------------------------------
\* load and load_deps.

\* The closure of thread::scope ends with r.  The scope then joins every worker
\* it spawned; no worker is ever sent Shutdown, so with a worker spawned the
\* join does not end.
Leave(r) ==
    /\ outcome' = r
    /\ pc' = IF NumWorkers(cpus) = 0 THEN "exited" ELSE "joining"

Returned(r) == pc = "exited" /\ outcome = r

CountPushed(pushed, k) ==
    Cardinality({i \in DOMAIN pushed : <<pushed[i].task.type, pushed[i].task.mod>> = k})

\* ModuleIds::get_or_insert: the id the name has, or the next id.
GetOrInsert(table, name) ==
    IF \E p \in table : p[1] = name THEN table
    ELSE table \cup {<<name, Cardinality(table) + 1>>}

\* send_header: the names it interns, in order: the declared name, then the
\* module of each import.
SendHeaderNames(file) == <<declared[file]>> \o SetToSeq(imports[file])

InternNamesStale(table, names) ==
    LET RECURSIVE Each(_, _)
        Each(t, ns) ==
            IF ns = <<>> THEN t
            ELSE Each(IF \E p \in table : p[1] = Head(ns) THEN t
                      ELSE t \cup {<<Head(ns), Cardinality(t) + 1>>}, Tail(ns))
    IN Each(table, names)

\* send_header (Shared): with the lock on the table held from the first
\* get_or_insert to the last, each name is interned in the table the calls
\* before it left.
RECURSIVE InternNames(_, _)
InternNames(table, names) ==
    IF names = <<>> THEN table
    ELSE InternNames(GetOrInsert(table, Head(names)), Tail(names))

\* send_header (Shared): home is the declared name, its ident table is created,
\* and Header goes out after the locks are released.
SendHeader(file) == HeaderMsg(declared[file], imports[file])

\* send_header: msg_tx.send(..).unwrap_or_else(|_| panic!(..)).  The send fails
\* when the channel has lost its receiver.
HeaderSendResult(open) == IF open THEN "ok" ELSE "panic"

LoadingProblemSwapped(k) ==
    CASE k = "Missing"   -> "ParsingFailed"
      [] k = "BadHeader" -> "FileProblem"
      [] k = "App"       -> "TriedToImportAppModule"

\* load_filename and parse_src with Shared tables: the LoadingProblem of a
\* file that cannot be read, whose header does not parse, or that is an app.
LoadingProblemOf(k) ==
    CASE k = "Missing"   -> "FileProblem"
      [] k = "BadHeader" -> "ParsingFailed"
      [] k = "App"       -> "TriedToImportAppModule"

\* load: the root file is read and its header sent before any thread is spawned.
\* The root is loaded with Shared tables, so parse_src refuses an App header.
LoadRoot ==
    /\ pc = "load"
    /\ UNCHANGED <<inputs, locking, find, header_idents, code_lines, tasks, task_errors, last, enqueued, finished_enqueued, owed>>
    /\ IF kind[RootFile] = "Interface" /\ HeaderSendResult(msg_rx_open) # "ok"
       THEN /\ pc' = "exited"
            /\ outcome' = HeaderSendResult(msg_rx_open)
            /\ ident_ids_by_module' = ident_ids_by_module \cup {declared[RootFile]}
            /\ module_ids' = InternNames(module_ids, SendHeaderNames(RootFile))
            /\ UNCHANGED <<root_id, msgs, state, signals, workers>>
       ELSE IF kind[RootFile] = "Interface"
       THEN /\ root_id' = declared[RootFile]
            /\ ident_ids_by_module' = ident_ids_by_module \cup {declared[RootFile]}
            /\ module_ids' = InternNames(module_ids, SendHeaderNames(RootFile))
            /\ msgs' = Append(msgs, SendHeader(RootFile))
            /\ state' = InitialState(declared[RootFile])
            /\ signals' = [w \in Workers |-> <<>>]
            /\ workers' = [w \in Workers |-> "running"]
            /\ pc' = "coordinator"
            /\ UNCHANGED outcome
       ELSE /\ pc' = "exited"
            /\ outcome' = LoadingProblemOf(kind[RootFile])
            /\ UNCHANGED <<root_id, ident_ids_by_module, module_ids, msgs, state, signals, workers>>

\* The TaskAddeds one call of update sends to worker w.
TaskAddedsFor(r, w) == r.notified + IF w <= r.partial THEN 1 ELSE 0

\* What a bounded channel that holds q takes of n more messages at once.
RoomFor(q, n) == IF Len(q) + n <= capacity THEN n ELSE capacity - Len(q)

\* The coordinator applies what one call of update did.  tx.send(TaskAdded) on
\* a full worker channel blocks until the worker has received a message: the
\* TaskAddeds that do not fit are owed, and the coordinator is inside the send.
\* Finished always fits: its step has just taken a message off the channel.
CoordApply(r, msg) ==
    /\ state' = r.st
    /\ tasks' = tasks \o [i \in 1..Len(r.pushed) |-> r.pushed[i].task]
    /\ signals' = [w \in DOMAIN signals |->
                       signals[w] \o [i \in 1..RoomFor(signals[w], TaskAddedsFor(r, w))
                                         |-> "TaskAdded"]]
    /\ owed' = [w \in DOMAIN signals |->
                    IF r.out = "ok"
                    THEN TaskAddedsFor(r, w) - RoomFor(signals[w], TaskAddedsFor(r, w))
                    ELSE 0]
    /\ msgs' = Tail(msgs) \o r.sent
    /\ last' = [msg |-> msg.type, mod |-> msg.mod, deps |-> msg.deps, pushed |-> r.pushed,
                notified |-> r.notified, partial |-> r.partial, sent |-> r.sent,
                out |-> r.out]
    /\ enqueued' = [k \in DOMAIN enqueued |-> enqueued[k] + CountPushed(r.pushed, k)]
    /\ finished_enqueued' = finished_enqueued + Len(r.sent)
    /\ IF r.out # "ok" THEN Leave(r.out)
       ELSE /\ pc' = IF \E w \in DOMAIN signals : owed'[w] > 0 THEN "sending" ELSE pc
            /\ UNCHANGED outcome
    /\ UNCHANGED <<inputs, locking, find, header_idents, code_lines, root_id, ident_ids_by_module, module_ids, workers, task_errors>>

\* The coordinator inside tx.send(TaskAdded): the send ends once the worker's
\* channel has room, and fails once the worker's thread has ended.
CoordSend ==
    /\ pc = "sending"
    /\ \E w \in DOMAIN owed :
           /\ owed[w] > 0
           /\ IF workers[w] # "running"
              THEN /\ Leave("MsgChannelDied")
                   /\ owed' = [v \in DOMAIN owed |-> 0]
                   /\ UNCHANGED signals
              ELSE /\ Len(signals[w]) < capacity
                   /\ signals' = [signals EXCEPT ![w] = Append(@, "TaskAdded")]
                   /\ owed' = [owed EXCEPT ![w] = @ - 1]
                   /\ pc' = IF \A v \in DOMAIN owed : owed'[v] = 0
                            THEN "coordinator" ELSE "sending"
                   /\ UNCHANGED outcome
    /\ UNCHANGED <<inputs, locking, find, header_idents, code_lines, root_id, state, ident_ids_by_module, module_ids, msgs, tasks, workers,
                   task_errors, last, enqueued, finished_enqueued>>

Receives(type) == pc = "coordinator" /\ msgs # <<>> /\ Head(msgs).type = type

\* load_deps, the coordinator's loop as compiled: update with its todo!()s.
CoordUpdate ==
    /\ pc = "coordinator" /\ msgs # <<>> /\ Head(msgs).type # "Finished"
    /\ CoordApply(Update(state, Head(msgs), ident_ids_by_module, root_id, TRUE, workers,
                        msg_rx_open),
                 Head(msgs))

CoordHeader ==
    /\ Receives("Header")
    /\ CoordApply(Update(state, Head(msgs), ident_ids_by_module, root_id, FALSE, workers,
                        msg_rx_open),
                 Head(msgs))

CoordConstrained ==
    /\ Receives("Constrained")
    /\ CoordApply(Update(state, Head(msgs), ident_ids_by_module, root_id, FALSE, workers,
                        msg_rx_open),
                 Head(msgs))

CoordSolved ==
    /\ Receives("Solved")
    /\ CoordApply(Update(state, Head(msgs), ident_ids_by_module, root_id, FALSE, workers,
                        msg_rx_open),
                 Head(msgs))

\* load_deps, Finished arm: the module-id table is unwrapped, which panics while
\* a queued LoadModule task holds a clone of its Arc, and Ok is returned.
CoordFinished ==
    /\ Receives("Finished")
    /\ msgs' = Tail(msgs)
    /\ last' = [NoStep EXCEPT !.msg = "Finished"]
    /\ Leave(IF \E i \in DOMAIN tasks : tasks[i].type = "LoadModule" THEN "panic" ELSE "Ok")
    /\ UNCHANGED <<inputs, locking, find, header_idents, code_lines, root_id, state, ident_ids_by_module, module_ids, tasks, signals,
                   workers, task_errors, enqueued, finished_enqueued, owed>>

-----------------------------------------------------------------------------
\* The tasks, run by whichever thread takes them from the queue.

Without(q, i) == [j \in 1..(Len(q) - 1) |-> IF j < i THEN q[j] ELSE q[j + 1]]

\* load_module, load_filename, parse_src, send_header for an imported module.
RunLoadModule ==
    \E i \in DOMAIN tasks :
        /\ tasks[i].type = "LoadModule"
        /\ Len(msgs) < capacity
        /\ tasks' = Without(tasks, i)
        /\ LET file == tasks[i].mod IN
           IF kind[file] = "Interface" /\ HeaderSendResult(msg_rx_open) # "ok"
           THEN /\ ident_ids_by_module' = ident_ids_by_module \cup {declared[file]}
                /\ module_ids' = InternNames(module_ids, SendHeaderNames(file))
                /\ task_errors' = task_errors \cup {HeaderSendResult(msg_rx_open)}
                /\ UNCHANGED msgs
           ELSE IF kind[file] = "Interface"
           THEN /\ ident_ids_by_module' = ident_ids_by_module \cup {declared[file]}
                /\ module_ids' = InternNames(module_ids, SendHeaderNames(file))
                /\ msgs' = Append(msgs, SendHeader(file))
                /\ UNCHANGED task_errors
           ELSE /\ task_errors' = task_errors \cup {LoadingProblemOf(kind[file])}
                /\ UNCHANGED <<ident_ids_by_module, module_ids, msgs>>
        /\ UNCHANGED <<inputs, locking, find, header_idents, code_lines, pc, outcome, root_id, state, signals, workers, last,
                       enqueued, finished_enqueued, owed>>

\* The parse-and-constrain task: Constrained for the header's module.
RunParseAndConstrain ==
    \E i \in DOMAIN tasks :
        /\ tasks[i].type = "ParseAndConstrain"
        /\ Len(msgs) < capacity
        /\ tasks' = Without(tasks, i)
        /\ msgs' = Append(msgs, ConstrainedMsg(tasks[i].mod, tasks[i].deps))
        /\ UNCHANGED <<inputs, locking, find, header_idents, code_lines, pc, outcome, root_id, state, ident_ids_by_module, module_ids,
                       signals, workers, task_errors, last, enqueued, finished_enqueued, owed>>

\* The solve task: Solved for the module.
RunSolve ==
    \E i \in DOMAIN tasks :
        /\ tasks[i].type = "Solve"
        /\ Len(msgs) < capacity
        /\ tasks' = Without(tasks, i)
        /\ msgs' = Append(msgs, SolvedMsg(tasks[i].mod))
        /\ UNCHANGED <<inputs, locking, find, header_idents, code_lines, pc, outcome, root_id, state, ident_ids_by_module, module_ids,
                       signals, workers, task_errors, last, enqueued, finished_enqueued, owed>>

-----------------------------------------------------------------------------
\* The worker threads as they are compiled.

\* load_deps, the worker's loop: one WorkerMsg is received.  On TaskAdded
\* find_task takes the oldest task of the queue, and the worker stops at
\* todo!("run this task"): the thread unwinds, dropping the task and the
\* receiver of its channel.
WorkerReceive ==
    \E w \in DOMAIN workers :
        /\ workers[w] = "running"
        /\ signals[w] # <<>>
        /\ signals' = [signals EXCEPT ![w] = Tail(@)]
        /\ IF Head(signals[w]) = "Shutdown"
           THEN workers' = [workers EXCEPT ![w] = "returned"] /\ UNCHANGED tasks
           ELSE IF tasks # <<>>
           THEN workers' = [workers EXCEPT ![w] = "panicked"] /\ tasks' = Tail(tasks)
           ELSE UNCHANGED <<workers, tasks>>
        /\ UNCHANGED <<inputs, locking, find, header_idents, code_lines, pc, outcome, root_id, state, ident_ids_by_module, module_ids, msgs,
                       task_errors, last, enqueued, finished_enqueued, owed>>

\* thread::scope(..).unwrap(): once the closure has ended the scope joins every
\* worker; it yields Err when a worker panicked, and the unwrap then panics.
JoinWorkers ==
    /\ pc = "joining"
    /\ \A w \in DOMAIN workers : workers[w] # "running"
    /\ pc' = "exited"
    /\ outcome' = IF \E w \in DOMAIN workers : workers[w] = "panicked"
                  THEN "panic" ELSE outcome
    /\ UNCHANGED <<inputs, locking, find, header_idents, code_lines, root_id, state, ident_ids_by_module, module_ids, msgs, tasks, signals,
                   workers, task_errors, last, enqueued, finished_enqueued, owed>>

-----------------------------------------------------------------------------
\* send_header and build_parse_and_constrain_task, lock by lock.  Thread 0 is
\* the coordinator; each other thread runs one LoadModule task, and the
\* threads are numbered in the order they enter send_header.

Coordinator == 0

Threads == 0..MaxThreads

Free(l) == \A t \in Threads : l \notin held[t]

\* The mutex a thread is inside lock() for.
Wanted(t) ==
    CASE at[t] = "lock_module_ids" -> {"module_ids"}
      [] at[t] = "lock_ident_ids"  -> {"ident_ids"}
      [] OTHER                     -> {}

\* A panic unwinds the thread: its guards are dropped, poisoning their mutexes.
Panics(t) ==
    /\ at' = [at EXCEPT ![t] = "panicked"]
    /\ poisoned' = poisoned \cup held[t]
    /\ held' = [held EXCEPT ![t] = {}]

\* lock().expect(..): the thread gets the guard once the mutex is free, and
\* panics when the mutex is poisoned.
Lock(t, l, then) ==
    IF l \in poisoned THEN Panics(t)
    ELSE /\ Free(l)
         /\ held' = [held EXCEPT ![t] = @ \cup {l}]
         /\ at' = [at EXCEPT ![t] = then]
         /\ UNCHANGED poisoned

loader == <<inputs, pc, outcome, root_id, state, tasks, signals, workers, task_errors,
            last, enqueued, finished_enqueued, owed>>

\* A thread enters send_header with the header of a file.
SendHeaderEnter ==
    \E t \in Threads \ {Coordinator}, f \in Reachable(imports) :
        /\ at[t] = "idle"
        /\ \A u \in 1..(t - 1) : at[u] # "idle"
        /\ at' = [at EXCEPT ![t] = "lock_module_ids"]
        /\ job' = [job EXCEPT ![t] = f]
        /\ UNCHANGED <<loader, find, header_idents, code_lines, held, poisoned, module_ids, ident_ids_by_module, msgs>>

\* send_header: (*arc_module_ids).lock().
SendHeaderLockModuleIds ==
    \E t \in Threads \ {Coordinator} :
        /\ at[t] = "lock_module_ids"
        /\ Lock(t, "module_ids", "lock_ident_ids")
        /\ UNCHANGED <<loader, find, header_idents, code_lines, job, module_ids, ident_ids_by_module, msgs>>

\* send_header: (*arc_ident_ids).lock(), with the module-id guard held.
SendHeaderLockIdentIds ==
    \E t \in Threads \ {Coordinator} :
        /\ at[t] = "lock_ident_ids"
        /\ Lock(t, "ident_ids", "interning")
        /\ UNCHANGED <<loader, find, header_idents, code_lines, job, module_ids, ident_ids_by_module, msgs>>

\* send_header: the names are interned, home gets its ident table, and the
\* match arm ends, dropping both guards.
SendHeaderIntern ==
    \E t \in Threads \ {Coordinator} :
        /\ at[t] = "interning"
        /\ module_ids' = InternNames(module_ids, SendHeaderNames(job[t]))
        /\ ident_ids_by_module' = ident_ids_by_module \cup {declared[job[t]]}
        /\ held' = [held EXCEPT ![t] = {}]
        /\ at' = [at EXCEPT ![t] = "send"]
        /\ UNCHANGED <<loader, find, header_idents, code_lines, job, poisoned, msgs>>

\* send_header: msg_tx.send(Msg::Header(..)), which waits while the channel is full.
SendHeaderSend ==
    \E t \in Threads \ {Coordinator} :
        /\ at[t] = "send"
        /\ Len(msgs) < capacity
        /\ msgs' = Append(msgs, SendHeader(job[t]))
        /\ at' = [at EXCEPT ![t] = "done"]
        /\ UNCHANGED <<loader, find, header_idents, code_lines, held, job, poisoned, module_ids, ident_ids_by_module>>

\* The coordinator receives a Header and enters build_parse_and_constrain_task
\* with it.
BuildTaskEnter ==
    /\ at[Coordinator] = "idle" /\ msgs # <<>>
    /\ msgs' = Tail(msgs)
    /\ job' = [job EXCEPT ![Coordinator] = Head(msgs).deps]
    /\ at' = [at EXCEPT ![Coordinator] = "lock_ident_ids"]
    /\ UNCHANGED <<loader, find, header_idents, code_lines, held, poisoned, module_ids, ident_ids_by_module>>

\* build_parse_and_constrain_task: (*ident_ids_by_module).lock().
BuildTaskLockIdentIds ==
    /\ at[Coordinator] = "lock_ident_ids"
    /\ Lock(Coordinator, "ident_ids", "reading")
    /\ UNCHANGED <<loader, find, header_idents, code_lines, job, module_ids, ident_ids_by_module, msgs>>

HeldAfterReadingKept(h) == h

\* build_parse_and_constrain_task: the block that locked the ident tables ends.
HeldAfterReading(h) == h \ {"ident_ids"}

\* build_parse_and_constrain_task: the ident table of each dep is looked up
\* under the lock (get(..).unwrap()), and the block ends.
BuildTaskReadIdents ==
    /\ at[Coordinator] = "reading"
    /\ IF job[Coordinator] \subseteq ident_ids_by_module
       THEN /\ held' = [held EXCEPT ![Coordinator] = HeldAfterReading(@)]
            /\ at' = [at EXCEPT ![Coordinator] = "lock_module_ids"]
            /\ UNCHANGED poisoned
       ELSE Panics(Coordinator)
    /\ UNCHANGED <<loader, find, header_idents, code_lines, job, module_ids, ident_ids_by_module, msgs>>

\* build_parse_and_constrain_task: (*module_ids).lock().
BuildTaskLockModuleIds ==
    /\ at[Coordinator] = "lock_module_ids"
    /\ Lock(Coordinator, "module_ids", "cloning")
    /\ UNCHANGED <<loader, find, header_idents, code_lines, job, module_ids, ident_ids_by_module, msgs>>

\* build_parse_and_constrain_task: the table is cloned and the guard dropped.
BuildTaskClone ==
    /\ at[Coordinator] = "cloning"
    /\ held' = [held EXCEPT ![Coordinator] = {}]
    /\ at' = [at EXCEPT ![Coordinator] = "idle"]
    /\ UNCHANGED <<loader, find, header_idents, code_lines, job, poisoned, module_ids, ident_ids_by_module, msgs>>

-----------------------------------------------------------------------------

Misdeclared(g) ==
    {[Identity EXCEPT ![f] = n] : f \in Reachable(g), n \in Mods}

Unloadable(g) ==
    {[AllInterface EXCEPT ![f] = k] : f \in Reachable(g), k \in FileKinds}

\* find_task, one call of it: the caller's own queue, the injector and the
\* stealers of the workers' queues. A queue is its tasks, oldest first.

Queue(of, k, n) == [i \in 1..n |-> <<of, k, i>>]

NoCall ==
    [at |-> "none", local |-> <<>>, global |-> <<>>, stealers |-> <<>>, idx |-> 0,
     popped |-> FALSE, first |-> <<"Empty">>, retry |-> FALSE, seen |-> <<>>,
     passes |-> 0, budget |-> 0, result |-> <<"None">>]

\* The calls of find_task: what the queues hold when it is called, and how
\* often other threads get in the way of its steals.
FindTaskCalls ==
    UNION {{[NoCall EXCEPT !.at = "pop",
                           !.local = Queue("local", 0, l),
                           !.global = Queue("global", 0, g),
                           !.stealers = [i \in 1..n |-> Queue("stealer", i, s[i])],
                           !.budget = b] :
                l \in 0..MaxQueued, g \in 0..MaxQueued, b \in 0..MaxRetries,
                s \in [1..n -> 0..MaxQueued]} :
           n \in 0..MaxThreads}

\* Injector::steal and Stealer::steal on queue q: Success with the oldest
\* task, Empty, or Retry when another thread got in the way, which may have
\* taken the oldest task itself.
Steal(q, budget) ==
    (IF q = <<>> THEN {[res |-> "Empty", rest |-> q]}
                 ELSE {[res |-> "Success", rest |-> Tail(q)]})
    \cup (IF budget = 0 THEN {}
          ELSE {[res |-> "Retry", rest |-> r] :
                    r \in {q} \cup (IF q = <<>> THEN {} ELSE {Tail(q)})})

\* The Steal value of an outcome on queue q.
Stolen(o, q) == IF o.res = "Success" THEN <<"Success", Head(q)>> ELSE <<o.res>>

OrElseSecond(self, f) == f

\* Steal::or_else: Empty yields the other steal, Success itself, and Retry
\* the other steal's Success or else Retry.
OrElse(self, f) ==
    IF self[1] = "Empty" THEN f
    ELSE IF self[1] = "Success" THEN self
    ELSE IF f[1] = "Success" THEN f ELSE <<"Retry">>

\* collect() over steals none of which succeeded: Retry if one was, else Empty.
Collected(retry) == IF retry THEN <<"Retry">> ELSE <<"Empty">>

\* .find(|s| !s.is_retry()).and_then(|s| s.success()) on a pass's Steal:
\* Retry starts the next pass, anything else is returned.
EndPass(f, pass) ==
    IF pass[1] = "Retry"
    THEN [f EXCEPT !.at = "global", !.idx = 0]
    ELSE [f EXCEPT !.at = "returned", !.idx = 0,
                   !.result = IF pass[1] = "Success" THEN <<"Some", pass[2]>>
                              ELSE <<"None">>]

\* local.pop(): the newest task of the caller's LIFO queue.
FindTaskPop ==
    /\ find.at = "pop"
    /\ find' = IF find.local # <<>>
               THEN [find EXCEPT !.at = "returned", !.popped = TRUE,
                                 !.result = <<"Some", find.local[Len(find.local)]>>,
                                 !.local = SubSeq(@, 1, Len(@) - 1)]
               ELSE [find EXCEPT !.at = "global"]
    /\ UNCHANGED <<loader, locking, header_idents, code_lines, ident_ids_by_module, module_ids, msgs>>

\* A pass starts: global.steal(). On Success or_else returns it and the
\* stealers are not asked.
FindTaskStealGlobal ==
    /\ find.at = "global"
    /\ \E o \in Steal(find.global, find.budget) :
           LET first == Stolen(o, find.global)
               f1 == [find EXCEPT !.global = o.rest, !.seen = <<o.res>>,
                                  !.first = first, !.retry = FALSE,
                                  !.passes = @ + 1,
                                  !.budget = IF o.res = "Retry" THEN @ - 1 ELSE @]
           IN find' = IF o.res = "Success" THEN EndPass(f1, first)
                      ELSE IF find.stealers = <<>>
                           THEN EndPass(f1, OrElse(first, Collected(FALSE)))
                           ELSE [f1 EXCEPT !.at = "stealers", !.idx = 1]
    /\ UNCHANGED <<loader, locking, header_idents, code_lines, ident_ids_by_module, module_ids, msgs>>

\* stealers.iter().map(|s| s.steal()).collect(): the next stealer. collect
\* stops at the first Success.
FindTaskStealWorker ==
    /\ find.at = "stealers"
    /\ LET i == find.idx
       IN \E o \in Steal(find.stealers[i], find.budget) :
              LET f1 == [find EXCEPT !.stealers[i] = o.rest,
                                     !.seen = Append(@, o.res),
                                     !.retry = @ \/ o.res = "Retry",
                                     !.budget = IF o.res = "Retry" THEN @ - 1 ELSE @]
              IN find' = IF o.res = "Success"
                         THEN EndPass(f1, OrElse(find.first, Stolen(o, find.stealers[i])))
                         ELSE IF i = Len(find.stealers)
                              THEN EndPass(f1, OrElse(find.first, Collected(f1.retry)))
                              ELSE [f1 EXCEPT !.idx = i + 1]
    /\ UNCHANGED <<loader, locking, header_idents, code_lines, ident_ids_by_module, module_ids, msgs>>

\* The identifiers of headers: module 1 imports module 2 exposing some of its
\* names, and each header has an exposes list. An IdentIds table is its
\* names in the order they were added; the IdentId of a name is its index
\* there, from 0.

IdentName == 1..MaxIdents

Importer == 1
Dep == 2

\* The lists of distinct names of length up to MaxIdents.
NameLists ==
    {l \in UNION {[1..n -> IdentName] : n \in 0..MaxIdents} :
        \A i, j \in DOMAIN l : i # j => l[i] # l[j]}

NoIdents ==
    [exposing |-> <<>>, exposes |-> <<<<>>, <<>>>>, tables |-> <<<<>>, <<>>>>,
     scope |-> {}, exposed |-> <<<<>>, <<>>>>, sent |-> {}]

\* IdentIds::add: the name gets the next IdentId, whether or not the table
\* has the name already.
IdentAdd(table, name) == [ident_ids |-> Append(table, name), id |-> Len(table)]

\* The IdentId by_ident has for a name: the one it was last added under.
IdentIdOf(table, name) ==
    (CHOOSE i \in DOMAIN table :
        table[i] = name /\ \A j \in DOMAIN table : table[j] = name => j <= i) - 1

HasIdent(table, name) == \E i \in DOMAIN table : table[i] = name

\* IdentIds::get_or_insert: the IdentId the name has, or the next one.
IdentGetOrInsert(table, name) ==
    IF HasIdent(table, name)
    THEN [ident_ids |-> table, id |-> IdentIdOf(table, name)]
    ELSE IdentAdd(table, name)

\* add_exposed_to_scope: each exposed name is added to the table it is
\* handed and enters the scope as a Symbol of module_id.
RECURSIVE AddExposedToScope(_, _, _, _)
AddExposedToScope(module_id, scope, exposed, ident_ids) ==
    IF exposed = <<>> THEN [scope |-> scope, ident_ids |-> ident_ids]
    ELSE LET r == IdentAdd(ident_ids, Head(exposed))
         IN AddExposedToScope(module_id,
                              scope \cup {<<Head(exposed), module_id, r.id>>},
                              Tail(exposed), r.ident_ids)

\* send_header's loop over exposes: Symbol::new(home, get_or_insert(name)).
RECURSIVE ExposeAll(_, _, _, _)
ExposeAll(home, exposes, exposed, ident_ids) ==
    IF exposes = <<>> THEN [exposed |-> exposed, ident_ids |-> ident_ids]
    ELSE LET r == IdentGetOrInsert(ident_ids, Head(exposes))
         IN ExposeAll(home, Tail(exposes), Append(exposed, <<home, r.id>>),
                      r.ident_ids)

\* send_header's Shared arm for the header of module home, under both locks:
\* home's table takes the imported names and then the exposed ones.
SendHeaderIdents(home) ==
    /\ home \in {Importer, Dep} \ header_idents.sent
    /\ LET imported == IF home = Importer THEN header_idents.exposing ELSE <<>>
           r1 == AddExposedToScope(Dep, header_idents.scope, imported,
                                   header_idents.tables[home])
           r2 == ExposeAll(home, header_idents.exposes[home], <<>>, r1.ident_ids)
       IN header_idents' = [header_idents EXCEPT !.tables[home] = r2.ident_ids,
                                   !.scope = r1.scope,
                                   !.exposed[home] = r2.exposed,
                                   !.sent = @ \cup {home}]
    /\ UNCHANGED <<loader, locking, find, code_lines, ident_ids_by_module, module_ids, msgs>>

SendHeaderImporter == SendHeaderIdents(Importer)

SendHeaderDep == SendHeaderIdents(Dep)

\* CodeLines of the editor. A String is its bytes: "a" and "nl" are the
\* one-byte chars a and \n, "e1" "e2" are the two bytes of one char.

Bytes == {"a", "nl", "e1", "e2"}

IsUtf8(s) ==
    \A i \in DOMAIN s :
        /\ s[i] = "e1" => (i < Len(s) /\ s[i + 1] = "e2")
        /\ s[i] = "e2" => (i > 1 /\ s[i - 1] = "e1")

\* The strings of up to n bytes.
Strs(n) == {s \in UNION {[1..k -> Bytes] : k \in 0..n} : IsUtf8(s)}

\* The strings of one char.
Chars == {s \in Strs(2) : s # <<>> /\ (Len(s) = 2 => s[1] = "e1")}

\* str::is_char_boundary, index counted in bytes from 0.
IsCharBoundary(s, index) ==
    \/ index = 0
    \/ index = Len(s)
    \/ index < Len(s) /\ s[index + 1] # "e2"

\* usize::MAX, as far as the model's integers go.
UsizeMax == 2147483647

\* nr_of_lines() - 1 where the subtraction wraps.
WrappingSub1(n) == IF n = 0 THEN UsizeMax ELSE n - 1

SplitExclusive(s) ==
    IF s = <<>> THEN <<>> ELSE <<SelectSeq(s, LAMBDA b : b # "nl")>>

\* str::split_inclusive('\n'): the pieces of s, each ending with its newline;
\* none for the empty string.
RECURSIVE SplitInclusive(_)
SplitInclusive(s) ==
    IF s = <<>> THEN <<>>
    ELSE LET nls == {i \in DOMAIN s : s[i] = "nl"}
             k == IF nls = {} THEN Len(s)
                  ELSE CHOOSE i \in nls : \A j \in nls : i <= j
         IN <<SubSeq(s, 1, k)>> \o SplitInclusive(SubSeq(s, k + 1, Len(s)))

\* CodeLines::from_str.
FromStr(code_str) ==
    [lines |-> SplitInclusive(code_str) \o
                   (IF code_str # <<>> /\ code_str[Len(code_str)] = "nl"
                    THEN <<<<>>>> ELSE <<>>),
     nr_of_chars |-> Len(code_str)]

\* Lines::all_lines: the lines pushed onto one string.
RECURSIVE AllLines(_)
AllLines(lines) ==
    IF lines = <<>> THEN <<>> ELSE Head(lines) \o AllLines(Tail(lines))

\* slice_get and slice_get_mut: the element at index, counted from 0, or
\* OutOfBounds.
InBounds(index, slice) == index < Len(slice)

SliceGet(index, slice) == slice[index + 1]

NoCode ==
    [at |-> "none", checks |-> FALSE, src |-> <<>>, lines |-> <<>>, nr_of_chars |-> 0,
     edits |-> 0, result |-> "none", before |-> [lines |-> <<>>, nr_of_chars |-> 0],
     end |-> [out |-> "none", line |-> 0, column |-> 0]]

\* A call on the CodeLines cl that leaves it with lines and nr_of_chars.
Called(cl, result, lines, nr_of_chars) ==
    [cl EXCEPT !.at = IF result = "panic" THEN "panicked" ELSE "built",
               !.result = result, !.edits = @ + 1,
               !.before = [lines |-> cl.lines, nr_of_chars |-> cl.nr_of_chars],
               !.lines = lines, !.nr_of_chars = nr_of_chars]

Failed(cl, result) == Called(cl, result, cl.lines, cl.nr_of_chars)

\* The line numbers and byte indexes a call on cl is made with: those of the
\* lines and one past them.
LineNrs(cl) == 0..Len(cl.lines)

Indexes(cl, line_nr) ==
    IF InBounds(line_nr, cl.lines) THEN 0..(Len(SliceGet(line_nr, cl.lines)) + 1)
    ELSE {0}

FromStrCalled ==
    /\ code_lines.at = "new"
    /\ code_lines' = [code_lines EXCEPT !.at = "built",
                                       !.lines = FromStr(code_lines.src).lines,
                                       !.nr_of_chars = FromStr(code_lines.src).nr_of_chars]
    /\ UNCHANGED <<loader, locking, find, header_idents, ident_ids_by_module, module_ids, msgs>>

\* CodeLines::insert_between_line. String::insert_str panics off a char
\* boundary and past the end.
InsertBetweenLine ==
    /\ code_lines.at = "built" /\ code_lines.edits < MaxEdits
    /\ \E line_nr \in LineNrs(code_lines), new_str \in Chars :
       \E index \in Indexes(code_lines, line_nr) :
           code_lines' =
               IF ~InBounds(line_nr, code_lines.lines) THEN Failed(code_lines, "OutOfBounds")
               ELSE LET line == SliceGet(line_nr, code_lines.lines)
                    IN IF index > Len(line) \/ ~IsCharBoundary(line, index)
                       THEN Failed(code_lines, "panic")
                       ELSE Called(code_lines, "Ok",
                                   [code_lines.lines EXCEPT ![line_nr + 1] =
                                        SubSeq(line, 1, index) \o new_str \o
                                        SubSeq(line, index + 1, Len(line))],
                                   code_lines.nr_of_chars + Len(new_str))
    /\ UNCHANGED <<loader, locking, find, header_idents, ident_ids_by_module, module_ids, msgs>>

\* CodeLines::insert_empty_line.
InsertEmptyLine ==
    /\ code_lines.at = "built" /\ code_lines.edits < MaxEdits
    /\ \E line_nr \in 0..(Len(code_lines.lines) + 1) :
           code_lines' =
               IF line_nr <= Len(code_lines.lines)
               THEN Called(code_lines, "Ok",
                           SubSeq(code_lines.lines, 1, line_nr) \o <<<<>>>> \o
                           SubSeq(code_lines.lines, line_nr + 1, Len(code_lines.lines)),
                           code_lines.nr_of_chars)
               ELSE Failed(code_lines, "OutOfBounds")
    /\ UNCHANGED <<loader, locking, find, header_idents, ident_ids_by_module, module_ids, msgs>>

\* CodeLines::del_at_line. String::remove takes out the char at index, all
\* of its bytes, and panics off a char boundary and at the end.
DelAtLine ==
    /\ code_lines.at = "built" /\ code_lines.edits < MaxEdits
    /\ \E line_nr \in LineNrs(code_lines) :
       \E index \in Indexes(code_lines, line_nr) :
           code_lines' =
               IF ~InBounds(line_nr, code_lines.lines) THEN Failed(code_lines, "OutOfBounds")
               ELSE LET line == SliceGet(line_nr, code_lines.lines)
                    IN IF index >= Len(line) \/ ~IsCharBoundary(line, index)
                       THEN Failed(code_lines, "panic")
                       ELSE LET width == IF line[index + 1] = "e1" THEN 2 ELSE 1
                            IN Called(code_lines, "Ok",
                                      [code_lines.lines EXCEPT ![line_nr + 1] =
                                           SubSeq(line, 1, index) \o
                                           SubSeq(line, index + width + 1, Len(line))],
                                      code_lines.nr_of_chars - 1)
    /\ UNCHANGED <<loader, locking, find, header_idents, ident_ids_by_module, module_ids, msgs>>

\* CodeLines::del_selection, for a selection whose start is not after its
\* end. String::drain panics off a char boundary and past the end.
DelSelection ==
    /\ code_lines.at = "built" /\ code_lines.edits < MaxEdits
    /\ \E start_line \in LineNrs(code_lines), end_line \in LineNrs(code_lines) :
       \E start_col \in Indexes(code_lines, start_line),
          end_col \in Indexes(code_lines, start_line) :
           /\ start_line < end_line \/ (start_line = end_line /\ start_col <= end_col)
           /\ code_lines' =
                  IF start_line # end_line
                  THEN Called(code_lines, "Ok", code_lines.lines, code_lines.nr_of_chars)
                  ELSE IF ~InBounds(start_line, code_lines.lines)
                  THEN Failed(code_lines, "OutOfBounds")
                  ELSE LET line == SliceGet(start_line, code_lines.lines)
                       IN IF \/ end_col > Len(line)
                             \/ ~IsCharBoundary(line, start_col)
                             \/ ~IsCharBoundary(line, end_col)
                          THEN Failed(code_lines, "panic")
                          ELSE Called(code_lines, "Ok",
                                      [code_lines.lines EXCEPT ![start_line + 1] =
                                           SubSeq(line, 1, start_col) \o
                                           SubSeq(line, end_col + 1, Len(line))],
                                      code_lines.nr_of_chars)
    /\ UNCHANGED <<loader, locking, find, header_idents, ident_ids_by_module, module_ids, msgs>>

\* CodeLines::end_txt_pos. With no line, nr_of_lines() - 1 panics where
\* overflow is checked and wraps where it is not; line_len of the wrapped
\* number is OutOfBounds and its unwrap panics.
EndTxtPos(cl) ==
    LET n == Len(cl.lines)
    IN IF n = 0 /\ cl.checks THEN [out |-> "panic", line |-> 0, column |-> 0]
       ELSE LET last_line == WrappingSub1(n)
            IN IF ~InBounds(last_line, cl.lines)
               THEN [out |-> "panic", line |-> 0, column |-> 0]
               ELSE [out |-> "Ok", line |-> last_line,
                     column |-> Len(SliceGet(last_line, cl.lines))]

EndTxtPosCalled ==
    /\ code_lines.at = "built" /\ code_lines.end.out = "none"
    /\ code_lines' = [code_lines EXCEPT !.end = EndTxtPos(code_lines),
                                       !.at = IF EndTxtPos(code_lines).out = "panic"
                                              THEN "panicked" ELSE @]
    /\ UNCHANGED <<loader, locking, find, header_idents, ident_ids_by_module, module_ids, msgs>>

\* load is called: a source tree, a machine, nothing loaded yet.
LoadCalled ==
    /\ imports \in Graphs
    /\ \/ declared \in Misdeclared(imports) /\ kind = AllInterface
       \/ declared = Identity /\ kind \in Unloadable(imports)
    /\ cpus \in 1..MaxCpus
    /\ pc = "load"
    /\ outcome = "none"
    /\ root_id = 0
    /\ state = BlankState
    /\ ident_ids_by_module = {}
    /\ module_ids = {}
    /\ msgs = <<>>
    /\ tasks = <<>>
    /\ signals = <<>>
    /\ workers = <<>>
    /\ task_errors = {}
    /\ last = NoStep
    /\ enqueued = [k \in TaskTypes \X Mods |-> 0]
    /\ finished_enqueued = 0
    /\ owed = <<>>
    /\ at = [t \in Threads |-> "idle"]
    /\ held = [t \in Threads |-> {}]
    /\ job = [t \in Threads |-> 0]
    /\ poisoned = {}

\* Every module's body refers to each module it imports.
AllReferenced == [m \in Mods |-> Mods]

\* load holds msg_rx from bounded(1024) until it returns.
Init ==
    /\ LoadCalled /\ find = NoCall /\ header_idents = NoIdents
    /\ code_lines = NoCode
    /\ msg_rx_open = TRUE /\ capacity = ChannelCapacity /\ references = AllReferenced

\* send_header and update are handed msg_tx by their callers: the channel in
\* either condition.
InitAnyChannel ==
    /\ LoadCalled /\ find = NoCall /\ header_idents = NoIdents
    /\ code_lines = NoCode
    /\ msg_rx_open \in BOOLEAN /\ capacity = ChannelCapacity /\ references = AllReferenced

\* The trees of the model have NumMods modules and cannot fill a channel of
\* ChannelCapacity: the channels are scaled to what these trees can fill.
InitSmallChannels ==
    /\ LoadCalled /\ find = NoCall /\ header_idents = NoIdents
    /\ code_lines = NoCode
    /\ msg_rx_open = TRUE /\ capacity \in 1..MaxCapacity /\ references = AllReferenced

\* Trees in which a module's body may leave some of its imports unused.
InitUnused ==
    /\ LoadCalled /\ find = NoCall /\ header_idents = NoIdents
    /\ code_lines = NoCode
    /\ msg_rx_open = TRUE /\ capacity = ChannelCapacity
    /\ references \in [Mods -> SUBSET Mods]
    /\ \A m \in Mods : references[m] \cup imports[m] = Mods

Next == LoadRoot \/ CoordUpdate

Spec == Init /\ [][Next]_vars

\* The loader as compiled, on a message channel in either condition.
SpecAnyChannel == InitAnyChannel /\ [][Next]_vars

\* load's thread runs whenever it has a step to take.
FairSpec == Init /\ [][Next]_vars /\ WF_vars(Next)

NextPipeline ==
    \/ LoadRoot
    \/ CoordHeader
    \/ CoordConstrained
    \/ CoordSolved
    \/ CoordFinished
    \/ RunLoadModule
    \/ RunParseAndConstrain
    \/ RunSolve

SpecPipeline == Init /\ [][NextPipeline]_vars

\* SpecPipeline over readable interface files that each declare their own
\* name, where every task that is queued is run and every message that is sent
\* is received.
InitReadable == Init /\ declared = Identity /\ kind = AllInterface

FairSpecReadable == InitReadable /\ [][NextPipeline]_vars /\ WF_vars(NextPipeline)

\* SpecPipeline with the worker threads as compiled.
NextWorkers == NextPipeline \/ WorkerReceive \/ JoinWorkers

SpecWorkers == Init /\ [][NextWorkers]_vars

\* The messages of SpecPipeline, each handled by update either as it compiles
\* or with the solve task pushed, over trees with unused imports.
NextUpdate == NextPipeline \/ CoordUpdate

SpecUpdate == InitUnused /\ [][NextUpdate]_vars

\* SpecWorkers on the scaled channels, with the coordinator's blocked sends.
NextSmallChannels == NextWorkers \/ CoordSend

SpecSmallChannels == InitSmallChannels /\ [][NextSmallChannels]_vars

\* Threads in send_header and the coordinator in build_parse_and_constrain_task,
\* over the headers of a tree, on the scaled channels.
InitLocks ==
    /\ InitSmallChannels /\ capacity = MaxCapacity
    /\ kind = AllInterface /\ declared = Identity /\ cpus = 1

NextLocks ==
    \/ SendHeaderEnter
    \/ SendHeaderLockModuleIds
    \/ SendHeaderLockIdentIds
    \/ SendHeaderIntern
    \/ SendHeaderSend
    \/ BuildTaskEnter
    \/ BuildTaskLockIdentIds
    \/ BuildTaskReadIdents
    \/ BuildTaskLockModuleIds
    \/ BuildTaskClone

SpecLocks == InitLocks /\ [][NextLocks]_vars

\* find_task called on queues of every filling, beside a load that has not
\* started: a lone root file on a machine with one cpu.
InitFindTask ==
    /\ LoadCalled /\ header_idents = NoIdents /\ code_lines = NoCode
    /\ msg_rx_open = TRUE /\ capacity = ChannelCapacity /\ references = AllReferenced
    /\ imports = [m \in Mods |-> {}] /\ kind = AllInterface /\ declared = Identity
    /\ cpus = 1
    /\ find \in FindTaskCalls

NextFindTask == FindTaskPop \/ FindTaskStealGlobal \/ FindTaskStealWorker

SpecFindTask == InitFindTask /\ [][NextFindTask]_vars

\* The headers of a module and of the module it imports, exposing names the
\* imported module exposes, assembled in either order, beside a load that has
\* not started.
InitIdents ==
    /\ LoadCalled /\ find = NoCall /\ code_lines = NoCode
    /\ msg_rx_open = TRUE /\ capacity = ChannelCapacity /\ references = AllReferenced
    /\ imports = [m \in Mods |-> IF m = Importer THEN {Dep} ELSE {}]
    /\ kind = AllInterface /\ declared = Identity /\ cpus = 1
    /\ \E exposing \in NameLists, ea \in NameLists, ed \in NameLists :
           /\ \A i \in DOMAIN exposing : \E k \in DOMAIN ed : ed[k] = exposing[i]
           /\ header_idents = [NoIdents EXCEPT !.exposing = exposing,
                                               !.exposes = <<ea, ed>>]

NextIdents == SendHeaderImporter \/ SendHeaderDep

SpecIdents == InitIdents /\ [][NextIdents]_vars

\* A CodeLines is built from a string and edited, beside a load that has not
\* started; overflow checks are on or off with the build.
InitCodeLines ==
    /\ LoadCalled /\ find = NoCall /\ header_idents = NoIdents
    /\ msg_rx_open = TRUE /\ capacity = ChannelCapacity /\ references = AllReferenced
    /\ imports = [m \in Mods |-> {}] /\ kind = AllInterface /\ declared = Identity
    /\ cpus = 1
    /\ \E s \in Strs(MaxLen), checks \in BOOLEAN :
           code_lines = [NoCode EXCEPT !.at = "new", !.src = s, !.checks = checks]

NextCodeLines ==
    \/ FromStrCalled
    \/ InsertBetweenLine
    \/ InsertEmptyLine
    \/ DelAtLine
    \/ DelSelection
    \/ EndTxtPosCalled

SpecCodeLines == InitCodeLines /\ [][NextCodeLines]_vars

-----------------------------------------------------------------------------
\* What the coordinator's last step pushed.

PushedLast(type) == {i \in DOMAIN last.pushed : last.pushed[i].task.type = type}

\* Every file declares the name it is imported under.
NamesMatch == \A f \in Reachable(imports) : declared[f] = f

RECURSIVE Descendants(_, _)
Descendants(g, S) ==
    LET T == S \cup UNION {g[m] : m \in S}
    IN IF T = S THEN S ELSE Descendants(g, T)

Acyclic(g) == \A m \in Mods : m \notin Descendants(g, g[m])

\* An acyclic tree of interface files, each declaring its own name.
GoodTree == NamesMatch /\ kind = AllInterface /\ Acyclic(imports)

\* C1: when the coordinator pushes the ParseAndConstrain task of a module,
\* every module of that header's deps_by_name is in headers_parsed.
HeaderBarrier ==
    \A i \in PushedLast("ParseAndConstrain") :
        last.pushed[i].task.deps \subseteq state.headers_parsed

\* A header with two deps was parked and its task pushed on the un-park path.
HeaderBarrierWitness ==
    \E i \in PushedLast("ParseAndConstrain") :
        /\ last.pushed[i].via = "unpark"
        /\ Cardinality(last.pushed[i].task.deps) >= 2

\* C2: when a solve task is pushed for a module, every module it imports
\* has its entry in exposed_types.
SolveBarrier ==
    \A i \in PushedLast("Solve") :
        last.pushed[i].task.deps \subseteq state.exposed_types

\* C3: at most one LoadModule task is pushed per module and none for the root;
\* a module whose LoadModule task is pushed is in loading_started after the step.
LoadModuleOnce ==
    /\ \A m \in Mods :
        /\ enqueued[<<"LoadModule", m>>] <= 1
        /\ (pc # "load" /\ m = root_id) => enqueued[<<"LoadModule", m>>] = 0
    /\ \A i \in PushedLast("LoadModule") :
        last.pushed[i].task.mod \in state.loading_started

\* Two modules whose headers were processed import the same module, which
\* got its one LoadModule task.
LoadModuleOnceWitness ==
    \E m, a, b \in Mods :
        /\ a # b /\ m \in imports[a] \cap imports[b]
        /\ NamesMatch /\ pc = "coordinator" /\ msgs = <<>>
        /\ {a, b} \subseteq state.headers_parsed
        /\ enqueued[<<"LoadModule", m>>] = 1

\* C4: at most one ParseAndConstrain task and at most one solve task is pushed
\* per module.
StageOnce ==
    \A m \in Mods :
        /\ enqueued[<<"ParseAndConstrain", m>>] <= 1
        /\ enqueued[<<"Solve", m>>] <= 1

\* C5: for an acyclic tree of readable interface files load returns Ok.
Termination == GoodTree ~> Returned("Ok")

\* C6: exactly one Finished message is enqueued in a run, in the step that
\* processes the root's Solved.
FinishedOnce ==
    /\ [](finished_enqueued <= 1)
    /\ [](last.sent # <<>> => last.msg = "Solved" /\ last.mod = root_id)
    /\ GoodTree ~> (finished_enqueued = 1)

\* C7: once the coordinator has consumed Finished, every worker has been sent
\* Shutdown.
ShutdownOnFinished ==
    last.msg = "Finished" =>
        \A w \in DOMAIN signals : \E i \in DOMAIN signals[w] : signals[w][i] = "Shutdown"

\* C8: the coordinator's step sends TaskAdded to every worker once per task it
\* pushes.
TaskAddedPerPush == last.notified = Len(last.pushed)

\* C9: a root file with an App header is accepted: its Header is sent and load
\* goes on to the coordinator.
RootAppAccepted ==
    (kind[RootFile] = "App" /\ pc # "load") =>
        /\ outcome # "TriedToImportAppModule"
        /\ root_id = declared[RootFile]

\* An imported file, not the root, has an App header.
ImportsApp ==
    /\ kind[RootFile] = "Interface"
    /\ \E f \in Reachable(imports) \ {RootFile} : kind[f] = "App"

\* C10: when an imported module has an App header, load returns
\* Err(TriedToImportAppModule).
ImportedAppRejected == ImportsApp ~> Returned("TriedToImportAppModule")

\* An imported file, not the root, cannot be read.
ImportsMissing ==
    /\ kind[RootFile] = "Interface"
    /\ \E f \in Reachable(imports) \ {RootFile} : kind[f] = "Missing"

\* C11: when the file of an imported module is missing, load returns
\* Err(FileProblem).
MissingImportReported == ImportsMissing ~> Returned("FileProblem")

\* C14: between two steps of the coordinator, headers_parsed is a subset of
\* loading_started.
ParsedWereStarted ==
    pc = "coordinator" => state.headers_parsed \subseteq state.loading_started

\* C15: between two steps of the coordinator, every module of unparsed_modules
\* has a non-empty waiting_for_headers entry with no module of headers_parsed.
ParkedHeadersWait ==
    pc = "coordinator" =>
        \A m \in DOMAIN state.unparsed_modules :
            /\ Has(state.waiting_for_headers, m)
            /\ state.waiting_for_headers[m] # {}
            /\ state.waiting_for_headers[m] \cap state.headers_parsed = {}

\* Two headers are parked at once; one of them has seen the header of one of
\* its imports arrive and waits for another.
ParkedHeadersWaitWitness ==
    /\ pc = "coordinator" /\ NamesMatch
    /\ Cardinality(DOMAIN state.unparsed_modules) >= 2
    /\ \E m \in DOMAIN state.unparsed_modules :
           /\ (state.unparsed_modules[m] \cap state.headers_parsed) \ {m} # {}
           /\ state.waiting_for_headers[m] # {}

\* C16: between two steps of the coordinator, every module of unsolved_modules
\* has a non-empty waiting_for_solve entry with no module of exposed_types.
ParkedSolvesWait ==
    pc = "coordinator" =>
        \A m \in DOMAIN state.unsolved_modules :
            /\ Has(state.waiting_for_solve, m)
            /\ state.waiting_for_solve[m] # {}
            /\ state.waiting_for_solve[m] \cap state.exposed_types = {}

\* A constrained module is parked while one module it imports is solved and
\* another is not.
ParkedSolvesWaitWitness ==
    /\ pc = "coordinator"
    /\ \E m \in DOMAIN state.unsolved_modules :
           /\ state.unsolved_modules[m] \cap state.exposed_types # {}
           /\ state.waiting_for_solve[m] # {}

\* The root module and every module imported by a file the root reaches.
ImportClosure == {root_id} \cup UNION {imports[f] : f \in Reachable(imports)}

\* C17: when load has returned Ok, every module the root reaches has its entry
\* in declarations_by_id, made once; every one but the root has its entry in
\* exposed_types, made once; the root has none.
CompletedOnce ==
    Returned("Ok") =>
        /\ root_id \notin state.exposed_types
        /\ \A m \in ImportClosure :
            /\ m \in state.declarations_by_id
            /\ enqueued[<<"ParseAndConstrain", m>>] = 1
            /\ m # root_id =>
                /\ m \in state.exposed_types
                /\ enqueued[<<"Solve", m>>] = 1

\* C20: the number of workers spawned is max(1, cpu_count - 1).
WorkerCount ==
    pc = "coordinator" =>
        Cardinality(DOMAIN signals) = (IF cpus - 1 >= 1 THEN cpus - 1 ELSE 1)

\* A imports B, B imports C, C imports nothing; every file is an interface
\* that declares its own name.
Chain ==
    /\ imports = [m \in Mods |-> IF m \in {1, 2} THEN {m + 1} ELSE {}]
    /\ NamesMatch /\ kind = AllInterface

\* C18: in the chain the coordinator processes Constrained(C) before
\* Constrained(B).
ConstrainedInChainOrder ==
    Chain => (2 \in state.declarations_by_id => 3 \in state.declarations_by_id)

\* C18, amended: in the chain the coordinator processes Header(C) before
\* Constrained(B), and Constrained(C) and Solved(C) before Solved(B).
ChainOrder ==
    Chain =>
        /\ 2 \in state.declarations_by_id => 3 \in state.headers_parsed
        /\ 2 \in state.exposed_types =>
               3 \in state.declarations_by_id \cap state.exposed_types

\* In the chain Solved(B) has been processed.
ChainOrderWitness == Chain /\ pc = "coordinator" /\ 2 \in state.exposed_types

\* A step of the coordinator: it takes the oldest message off the channel.
CoordStep ==
    /\ pc = "coordinator" /\ msgs # <<>>
    /\ msgs' # msgs /\ Len(msgs') <= Len(msgs)

\* C19: the step that processes a Header with no imports pushes the module's
\* ParseAndConstrain task, and adds the module to none of unparsed_modules,
\* waiting_for_headers and the lists of header_listeners.
ZeroImportsDirect ==
    [][(CoordStep /\ Head(msgs).type = "Header" /\ Head(msgs).deps = {}) =>
          /\ \E i \in DOMAIN last'.pushed :
                 last'.pushed[i] =
                     Push(ParseAndConstrainTask(Head(msgs).mod, {}), "direct")
          /\ DOMAIN state'.unparsed_modules \subseteq DOMAIN state.unparsed_modules
          /\ DOMAIN state'.waiting_for_headers \subseteq DOMAIN state.waiting_for_headers
          /\ \A d \in DOMAIN state'.header_listeners :
                 /\ Has(state.header_listeners, d)
                 /\ state'.header_listeners[d] = state.header_listeners[d]]_vars

\* The Header of an imported module with no imports was processed; the step
\* pushed its task and the task of a module that waited for it.
ZeroImportsDirectWitness ==
    /\ last.msg = "Header" /\ last.mod # root_id
    /\ \E i, j \in DOMAIN last.pushed :
           /\ last.pushed[i].via = "unpark"
           /\ last.pushed[j] = Push(ParseAndConstrainTask(last.mod, {}), "direct")

\* C13: when update has returned a LoadingProblem, load has returned it.
FatalReturnsAtOnce ==
    last.out \notin {"ok", "panic"} => Returned(last.out)

LeavesOnShutdownOnly ==
    \A w \in DOMAIN workers : workers[w] # "running" => workers[w] = "returned"

\* C22: the coordinator is never blocked inside a send: neither the send of
\* Finished nor a send of TaskAdded waits for room in a channel.
CoordinatorNeverBlocksOnSend == pc # "sending"

\* C23: the shared module-id table maps names to ids one-to-one, however the
\* send_header calls of the threads interleave: a name has one ModuleId, and a
\* ModuleId has one name.
ModuleIdsOneToOne ==
    \A p, q \in module_ids : (p[1] = q[1]) <=> (p[2] = q[2])

\* Two threads have interned the names of two files that import the same
\* module, three names in all, the name of the root file last.
ModuleIdsOneToOneWitness ==
    /\ Cardinality(module_ids) = 3
    /\ <<RootFile, 3>> \in module_ids
    /\ \E m, a, b \in Mods :
           /\ a # b /\ m \in imports[a] \cap imports[b] /\ NamesMatch
           /\ {a, b} \subseteq ident_ids_by_module

\* A thread is inside lock() for a mutex another thread holds.
WaitsFor(t, u) == t # u /\ Wanted(t) \cap held[u] # {}

\* C30: no thread holds an intern-table mutex while it is at a channel send,
\* or while it waits for the other intern-table mutex held by another thread.
NoLockHeldWhileWaiting ==
    \A t \in Threads :
        /\ at[t] = "send" => held[t] = {}
        /\ held[t] # {} => \A u \in Threads : ~WaitsFor(t, u)

\* C30, amended: no thread holds an intern-table mutex while it is at a channel
\* send, the coordinator never holds both mutexes, and no two threads wait for
\* a mutex the other holds.
LocksNeverDeadlock ==
    /\ \A t \in Threads : at[t] = "send" => held[t] = {}
    /\ Cardinality(held[Coordinator]) <= 1
    /\ \A t, u \in Threads : ~(WaitsFor(t, u) /\ WaitsFor(u, t))

\* A thread in send_header holds the module-id mutex and waits for the ident-id
\* mutex, which the coordinator holds for the Header another thread has sent.
LocksNeverDeadlockWitness ==
    \E t, u \in Threads \ {Coordinator} :
        /\ held[t] = {"module_ids"} /\ WaitsFor(t, Coordinator)
        /\ at[u] = "done"

\* The modules of the tree: the names the files that the root reaches declare.
ModulesOfTree == {declared[f] : f \in Reachable(imports)}

\* C24: the modules a load records do not depend on the schedule: every run
\* over an acyclic tree of interface files that ends with Ok ends with the
\* same keys of declarations_by_id and of exposed_types, those of the tree.
RecordedModulesFixed ==
    (outcome = "Ok" /\ Acyclic(imports) /\ kind = AllInterface) =>
        /\ state.declarations_by_id = ModulesOfTree
        /\ state.exposed_types = ModulesOfTree \ {root_id}

\* The step's solve task for module m was pushed and update returned Ok(state).
SolveEnqueued(m) ==
    /\ last'.out = "ok"
    /\ \E i \in DOMAIN last'.pushed :
           last'.pushed[i].task.type = "Solve" /\ last'.pushed[i].task.mod = m

ListenersOf(listeners, d) == IF Has(listeners, d) THEN listeners[d] ELSE <<>>

\* C25: a module with an unused import that is ready to be solved, when its
\* Constrained is handled or when a Solved un-parks it, has its solve task
\* pushed by that step, and update returns Ok(state).
UnusedImportTolerated ==
    [][CoordStep =>
          LET msg == Head(msgs) IN
          /\ (/\ msg.type = "Constrained"
              /\ Has(state.waiting_for_solve, msg.mod)
              /\ state.waiting_for_solve[msg.mod] \subseteq state.exposed_types
              /\ UnusedImports(msg.mod, msg.deps) # {})
                 => SolveEnqueued(msg.mod)
          /\ msg.type = "Solved" =>
                 \A l \in DOMAIN state.unsolved_modules \ DOMAIN state'.unsolved_modules :
                     UnusedImports(l, state.unsolved_modules[l]) # {} => SolveEnqueued(l)]_vars

\* C26: the step that handles Constrained(M) pushes M's solve task and parks
\* nothing when every module of waiting_for_solve[M] is in exposed_types;
\* otherwise it parks M in unsolved_modules and appends M to solve_listeners[D]
\* for exactly the deps D that are not.
ConstrainedSolvesOrParks ==
    [][(CoordStep /\ Head(msgs).type = "Constrained"
                  /\ Has(state.waiting_for_solve, Head(msgs).mod)) =>
          LET m == Head(msgs).mod
              rest == {d \in state.waiting_for_solve[m] : d \notin state.exposed_types}
          IN IF rest = {}
             THEN /\ SolveEnqueued(m)
                  /\ state'.unsolved_modules = state.unsolved_modules
                  /\ state'.solve_listeners = state.solve_listeners
             ELSE /\ last'.out = "ok" /\ last'.pushed = <<>>
                  /\ Has(state'.unsolved_modules, m)
                  /\ \A d \in Mods :
                         ListenersOf(state'.solve_listeners, d) =
                             ListenersOf(state.solve_listeners, d)
                                 \o (IF d \in rest THEN <<m>> ELSE <<>>)]_vars

\* C27: the step that handles Solved(D) for a D other than the root publishes
\* exposed_types[D], removes D from waiting_for_solve[L] of every L of
\* solve_listeners[D], takes every L whose set became empty out of
\* unsolved_modules and pushes its solve task, and the coordinator goes on.
SolvedUnparksListeners ==
    [][(CoordStep /\ Head(msgs).type = "Solved" /\ Head(msgs).mod # root_id) =>
          LET d == Head(msgs).mod
              listeners == ListenersOf(state.solve_listeners, d)
          IN /\ d \in state'.exposed_types
             /\ pc' = "coordinator"
             /\ \A i \in DOMAIN listeners :
                    LET l == listeners[i] IN
                    /\ Has(state'.waiting_for_solve, l)
                    /\ d \notin state'.waiting_for_solve[l]
                    /\ state'.waiting_for_solve[l] = {} =>
                           /\ ~Has(state'.unsolved_modules, l)
                           /\ SolveEnqueued(l)]_vars

\* The modules of a listener list.
Listening(listeners, d) ==
    {ListenersOf(listeners, d)[i] : i \in DOMAIN ListenersOf(listeners, d)}

\* C28: between two steps of the coordinator the listener indexes mirror the
\* waiting sets: L is in header_listeners[D] exactly when L is parked in
\* unparsed_modules with D in waiting_for_headers[L], L is in solve_listeners[D]
\* exactly when L is parked in unsolved_modules with D in waiting_for_solve[L],
\* no key of header_listeners is in headers_parsed, no key of solve_listeners
\* is in exposed_types, and no list holds a module twice.
ListenersMirrorWaiting ==
    pc = "coordinator" =>
        /\ \A d, l \in Mods :
               /\ l \in Listening(state.header_listeners, d) <=>
                      /\ Has(state.unparsed_modules, l)
                      /\ Has(state.waiting_for_headers, l)
                      /\ d \in state.waiting_for_headers[l]
               /\ l \in Listening(state.solve_listeners, d) <=>
                      /\ Has(state.unsolved_modules, l)
                      /\ Has(state.waiting_for_solve, l)
                      /\ d \in state.waiting_for_solve[l]
        /\ DOMAIN state.header_listeners \cap state.headers_parsed = {}
        /\ DOMAIN state.solve_listeners \cap state.exposed_types = {}
        /\ \A d \in Mods :
               /\ Len(ListenersOf(state.header_listeners, d)) =
                      Cardinality(Listening(state.header_listeners, d))
               /\ Len(ListenersOf(state.solve_listeners, d)) =
                      Cardinality(Listening(state.solve_listeners, d))


\* C29: find_task returns the newest task of the caller's own queue whenever
\* that queue holds one, without stealing; otherwise it returns the first task
\* a steal yields, goes on to another pass when a pass had a Retry and no
\* Success, and returns None only from a pass in which the global queue and
\* every stealer reported Empty.
FindTaskContract ==
    find.at = "returned" =>
        /\ ~find.popped => find.local = <<>>
        /\ find.popped =>
               /\ find.result = <<"Some", <<"local", 0, Len(find.local) + 1>>>>
               /\ find.seen = <<>>
        /\ (~find.popped /\ find.result = <<"None">>) =>
               find.seen = [i \in 1..(Len(find.stealers) + 1) |-> "Empty"]
        /\ (~find.popped /\ find.result # <<"None">>) =>
               LET k == Len(find.seen)
               IN /\ k >= 1
                  /\ find.seen[k] = "Success"
                  /\ \A i \in 1..(k - 1) : find.seen[i] # "Success"
                  /\ \E n \in 1..(MaxQueued + 1) :
                         find.result = <<"Some", IF k = 1 THEN <<"global", 0, n>>
                                                  ELSE <<"stealer", k - 1, n>>>>

\* After a pass that ended in Retry, a pass in which the global queue
\* reported Retry and a stealer then yielded the task that was returned.
FindTaskContractWitness ==
    /\ find.at = "returned"
    /\ find.passes >= 2
    /\ find.seen[1] = "Retry"
    /\ find.result # <<"None">>


\* C31: once the header of the importing module and the header of its dep
\* are both assembled, a name the import exposes is in scope as the Symbol of
\* the dep with the IdentId the name has in the dep's table, and where the
\* dep's header exposes the name its Symbol there is the same, in whichever
\* order the two headers were assembled.
ImportedSymbolsAgree ==
    header_idents.sent = {Importer, Dep} =>
        \A e \in header_idents.scope :
            /\ e[2] = Dep
            /\ HasIdent(header_idents.tables[Dep], e[1])
            /\ e[3] = IdentIdOf(header_idents.tables[Dep], e[1])
            /\ \A k \in DOMAIN header_idents.exposes[Dep] :
                   header_idents.exposes[Dep][k] = e[1] =>
                       header_idents.exposed[Dep][k] = <<Dep, e[3]>>


\* C32: when the coordinator is about to consume Finished, Finished is the
\* only message of the channel.
FinishedIsLastMessage ==
    (pc = "coordinator" /\ msgs # <<>> /\ Head(msgs).type = "Finished") =>
        Len(msgs) = 1


\* C33: when the coordinator is about to consume Finished, no LoadModule task
\* is queued: the clones of the module-id table's Arc are all dropped and the
\* coordinator's reference is the only one.
ModuleIdsUniquelyHeld ==
    Receives("Finished") => \A i \in DOMAIN tasks : tasks[i].type # "LoadModule"


\* C34: a load of readable interface files, each declaring its own name, whose
\* import graph has a cycle ends with a fatal error.
CyclicImportFails ==
    (~Acyclic(imports) /\ NamesMatch /\ kind = AllInterface)
        ~> outcome \notin {"none", "Ok"}


\* C35: whenever the coordinator is about to process the Constrained message
\* of a module, waiting_for_solve has an entry for the module; and the step
\* that builds a module's ParseAndConstrain task sets the entry to exactly the
\* task's deps that had no exposed_types entry when the step began.
WaitingForSolveReady ==
    /\ [](Receives("Constrained") => Has(state.waiting_for_solve, Head(msgs).mod))
    /\ [][\A i \in DOMAIN last'.pushed :
              LET t == last'.pushed[i].task
              IN (last' # last /\ t.type = "ParseAndConstrain") =>
                     /\ Has(state'.waiting_for_solve, t.mod)
                     /\ state'.waiting_for_solve[t.mod] =
                            {d \in t.deps : d \notin state.exposed_types}]_vars

\* The Constrained message of a module is about to be processed whose entry
\* holds some of its deps and not all: one of them was solved before the
\* module's task was built.
WaitingForSolveReadyWitness ==
    /\ Receives("Constrained")
    /\ Has(state.waiting_for_solve, Head(msgs).mod)
    /\ state.waiting_for_solve[Head(msgs).mod] # {}
    /\ state.waiting_for_solve[Head(msgs).mod] # Head(msgs).deps
    /\ state.waiting_for_solve[Head(msgs).mod] \subseteq Head(msgs).deps
    /\ NamesMatch


\* C36: when the root file cannot be read or its header does not parse, load
\* has returned FileProblem or ParsingFailed respectively as soon as it has
\* left its first step, with no worker spawned, no message sent and no task
\* queued.
RootFailureReturned ==
    (pc # "load" /\ kind[RootFile] \in {"Missing", "BadHeader"}) =>
        /\ Returned(IF kind[RootFile] = "Missing" THEN "FileProblem"
                    ELSE "ParsingFailed")
        /\ workers = <<>> /\ signals = <<>>
        /\ msgs = <<>> /\ tasks = <<>> /\ finished_enqueued = 0

\* load has returned ParsingFailed for a root whose header does not parse, on
\* a machine that would have had a worker.
RootFailureReturnedWitness ==
    /\ kind[RootFile] = "BadHeader"
    /\ Returned("ParsingFailed")
    /\ cpus > 1


\* C37: a step changes constrained_ident_ids or declarations_by_id only when
\* it processes a Constrained message; the step that processes the Constrained
\* message of a module finds the module's key in neither map and adds exactly
\* that key to each.
ConstrainedMapsFrame ==
    [][/\ (\/ state'.constrained_ident_ids # state.constrained_ident_ids
           \/ state'.declarations_by_id # state.declarations_by_id) =>
              (Receives("Constrained") /\ msgs' = Tail(msgs))
       /\ (Receives("Constrained") /\ msgs' = Tail(msgs)) =>
              /\ Head(msgs).mod \notin state.constrained_ident_ids
              /\ Head(msgs).mod \notin state.declarations_by_id
              /\ state'.constrained_ident_ids =
                     state.constrained_ident_ids \cup {Head(msgs).mod}
              /\ state'.declarations_by_id =
                     state.declarations_by_id \cup {Head(msgs).mod}]_vars


\* C38: the CodeLines that from_str builds from a string has lines whose
\* concatenation in order, all_lines, is the string, and nr_of_chars equal to
\* the string's length; its last line is empty when the string ends with a
\* newline.
FromStrRoundTrip ==
    (code_lines.at = "built" /\ code_lines.edits = 0) =>
        /\ AllLines(code_lines.lines) = code_lines.src
        /\ code_lines.nr_of_chars = Len(code_lines.src)
        /\ (code_lines.src # <<>> /\ code_lines.src[Len(code_lines.src)] = "nl") =>
               /\ code_lines.lines # <<>>
               /\ code_lines.lines[Len(code_lines.lines)] = <<>>
               /\ Len(code_lines.lines) =
                      Cardinality({i \in DOMAIN code_lines.src : code_lines.src[i] = "nl"}) + 1

\* Built from a string of two newlines: two lines and the final empty one.
FromStrRoundTripWitness ==
    /\ code_lines.at = "built" /\ code_lines.edits = 0
    /\ code_lines.src = <<"nl", "nl">>
    /\ Len(code_lines.lines) = 3


RECURSIVE SumOfLens(_)
SumOfLens(lines) ==
    IF lines = <<>> THEN 0 ELSE Len(Head(lines)) + SumOfLens(Tail(lines))

\* C39: after any calls of insert_between_line, insert_empty_line,
\* del_at_line and del_selection on a CodeLines built by from_str,
\* nr_of_chars is the sum of the lengths of the lines, and a call that
\* returned an error has left lines and nr_of_chars as they were.
NrOfCharsIsSumOfLines ==
    code_lines.at = "built" =>
        /\ code_lines.nr_of_chars = SumOfLens(code_lines.lines)
        /\ code_lines.result = "OutOfBounds" =>
               /\ code_lines.lines = code_lines.before.lines
               /\ code_lines.nr_of_chars = code_lines.before.nr_of_chars

\* C40: end_txt_pos of a CodeLines built by from_str returns the number of
\* the last line and that line's length, and does not panic.
EndTxtPosReturns ==
    (code_lines.end.out # "none" /\ code_lines.edits = 0) =>
        /\ code_lines.end.out = "Ok"
        /\ code_lines.lines # <<>>
        /\ code_lines.end.line = Len(code_lines.lines) - 1
        /\ code_lines.end.column = Len(code_lines.lines[Len(code_lines.lines)])

====
